---- MODULE Spec2Model ----
(***************************************************************************)
(* gitop: a terminal monitor of local git checkouts (src/src/main.rs).     *)
(*                                                                         *)
(* Two activities share the repository table `repos` and the console log   *)
(* `console_messages`:                                                     *)
(*   - the poller task monitor_repositories, which once per interval locks *)
(*     the table, queries every repository and appends console messages;   *)
(*   - the interactive loop run_app, which draws a frame, reads at most    *)
(*     one key and hands it to App::handle_key.                            *)
(* Row and repository indices are 0-based as in the source; TLA+ sequences *)
(* are 1-based, so repository index i is repos[i + 1].                     *)
(***************************************************************************)
EXTENDS Integers, Sequences, FiniteSets, TLC

(* ------------------------------ bounds -------------------------------- *)
\* Largest number of configured repositories.
NumRepos == 2
\* Largest ahead / behind count the VCS collaborator reports in Spec.
MaxCount == 1
\* Largest ahead and behind counts it reports in SpecPoll.
WideAhead == 2
WideBehind == 3
\* Largest number of configured repositories in SpecView.
ViewRepos == 3
\* Commits in a checkout's history in SpecView.
ViewHist == 2
\* Poller ticks explored from the initial state.
MaxTicks == 2
\* Commits in a checkout's history (what the revwalk can return at most).
HistLen == 1
\* Largest ahead count and longest history in SpecCommits.
DeepAhead == 6
DeepHist == 6

(* ------------------------- program constants -------------------------- *)
\* "Keep only last 50 messages"
MaxMessages == 50
\* (ahead - prev_ahead).min(5)
CommitCap == 5
\* Config.max_commits of the default configuration
max_commits == 5

Names == <<"A", "B", "C", "D">>
Paths == <<"/A", "/B", "/C", "/D">>
\* TableState::selected() == None
NoSel == -1

Min(a, b) == IF a < b THEN a ELSE b

VARIABLES
    repos,             \* App.repos: Vec<RepoStatus> behind a Mutex
    console_messages,  \* App.console_messages: Vec<ConsoleMessage>
    selected,          \* App.table_state.selected(): a flat row, or NoSel
    should_quit,       \* App.should_quit
    pc_ui,             \* where main / run_app stands
    pc_poll,           \* where monitor_repositories stands
    poll_idx,          \* position of `for repo in repos_guard.iter_mut()`
    results,           \* what get_repo_status returned per repository this tick
    repos_lock,        \* holder of the repos mutex between steps
    key,               \* the key this iteration of the UI loop read
    fetch,             \* what toggle_expand got from get_recent_commits
    now,               \* Instant::now() / Utc::now(): advances once per tick
    ticks_left,        \* poller ticks still to be explored
    path_seen,         \* what main found at each configured path
    console_lock,      \* holder of the console_messages mutex between steps
    ui_ops,            \* lock operations the main task still has to run
    poll_ops           \* lock operations the current pass still has to run

vars == <<repos, console_messages, selected, should_quit, pc_ui, pc_poll,
          poll_idx, results, repos_lock, key, fetch, now, ticks_left,
          path_seen, console_lock, ui_ops, poll_ops>>

(* ------------------------------ records ------------------------------- *)
\* RepoStatus as App::new builds it
NewRepoStatus(i) ==
    [name |-> Names[i], path |-> Paths[i], ahead |-> 0, behind |-> 0,
     current_branch |-> "unknown", last_update |-> 0, expanded |-> FALSE,
     recent_commits |-> <<>>]

\* CommitInfo: the k-th newest commit of a checkout
Commit(k) == [hash |-> k, author |-> "dev", message |-> "msg"]

\* ConsoleMessage; the formatted text is kept as its kind and its arguments
Msg(t, repo, author, kind, a, da, b, db, text) ==
    [timestamp |-> t, repo |-> repo, author |-> author, kind |-> kind,
     ahead |-> a, d_ahead |-> da, behind |-> b, d_behind |-> db, text |-> text]

(* --------------------- view state: App (lines 209-312) ----------------- *)
\* rows a repository takes in the table: its own and, expanded, its commits
RECURSIVE SelWalk(_, _, _, _)
\* the `for (repo_index, repo) in repos.iter().enumerate()` loop of
\* get_selected_repo_index, entered at repo_index with current_table_row
SelWalk(rs, sel, repo_index, current_table_row) ==
    IF repo_index >= Len(rs) THEN 0
    ELSE IF current_table_row = sel THEN repo_index
    ELSE LET repo == rs[repo_index + 1]
             after == current_table_row + 1
                      + (IF repo.expanded THEN Len(repo.recent_commits) ELSE 0)
         IN  IF after > sel THEN repo_index
             ELSE SelWalk(rs, sel, repo_index + 1, after)

\* get_selected_repo_index taking the selected row for a repository index
get_selected_repo_index_as_row(rs, sel) ==
    IF Len(rs) = 0 THEN 0
    ELSE IF sel = NoSel THEN 0
    ELSE IF sel >= Len(rs) THEN 0
    ELSE sel

\* App::get_selected_repo_index
get_selected_repo_index(rs, sel) ==
    IF Len(rs) = 0 THEN 0
    ELSE IF sel = NoSel THEN 0
    ELSE SelWalk(rs, sel, 0, 0)

RECURSIVE RowWalk(_, _, _, _)
\* the `for (i, repo) in repos.iter().enumerate()` loop of calculate_table_row
RowWalk(rs, repo_index, i, table_row) ==
    IF i >= Len(rs) THEN table_row
    ELSE IF i = repo_index THEN table_row
    ELSE LET repo == rs[i + 1]
         IN  RowWalk(rs, repo_index, i + 1,
                     table_row + 1
                     + (IF repo.expanded THEN Len(repo.recent_commits) ELSE 0))

RECURSIVE RowWalkAll(_, _, _, _)
\* RowWalk counting the cached commits of collapsed repositories too
RowWalkAll(rs, repo_index, i, table_row) ==
    IF i >= Len(rs) THEN table_row
    ELSE IF i = repo_index THEN table_row
    ELSE RowWalkAll(rs, repo_index, i + 1,
                    table_row + 1 + Len(rs[i + 1].recent_commits))

\* calculate_table_row without the test of the expand flag
calculate_table_row_all(rs, repo_index) == RowWalkAll(rs, repo_index, 0, 0)

\* App::calculate_table_row
calculate_table_row(rs, repo_index) == RowWalk(rs, repo_index, 0, 0)

\* next stopping at the last repository instead of wrapping
next_saturating(rs, sel) ==
    IF Len(rs) = 0 THEN sel
    ELSE LET current_repo_index == get_selected_repo_index(rs, sel)
             next_repo_index == IF current_repo_index >= Len(rs) - 1
                                THEN Len(rs) - 1
                                ELSE current_repo_index + 1
         IN  calculate_table_row(rs, next_repo_index)

\* App::next: the row selected afterwards
next(rs, sel) ==
    IF Len(rs) = 0 THEN sel
    ELSE LET current_repo_index == get_selected_repo_index(rs, sel)
             next_repo_index == IF current_repo_index >= Len(rs) - 1 THEN 0
                                ELSE current_repo_index + 1
         IN  calculate_table_row(rs, next_repo_index)

\* previous without the early return on an empty table: the index wraps
\* and calculate_table_row gives row 0
previous_unguarded(rs, sel) ==
    LET current_repo_index == get_selected_repo_index(rs, sel)
        prev_repo_index == IF current_repo_index = 0 THEN Len(rs) - 1
                           ELSE current_repo_index - 1
    IN  calculate_table_row(rs, prev_repo_index)

\* App::previous: the row selected afterwards
previous(rs, sel) ==
    IF Len(rs) = 0 THEN sel
    ELSE LET current_repo_index == get_selected_repo_index(rs, sel)
             prev_repo_index == IF current_repo_index = 0 THEN Len(rs) - 1
                                ELSE current_repo_index - 1
         IN  calculate_table_row(rs, prev_repo_index)

\* get_recent_commits without `if i >= count { break; }`
get_recent_commits_uncapped(count, hist_len) ==
    { [k \in 1..len |-> Commit(k)] : len \in 0..hist_len }

\* get_recent_commits(path, count): best effort, the newest commits of the
\* checkout, at most count of them, none when the checkout cannot be read
get_recent_commits(count, hist_len) ==
    { [k \in 1..len |-> Commit(k)] : len \in 0..Min(count, hist_len) }

\* toggle_repo refetching on collapse as well
toggle_repo_refetch_always(repo, fetched) ==
    [repo EXCEPT !.expanded = ~repo.expanded, !.recent_commits = fetched]

\* the repository entry after `repo.expanded = !repo.expanded` and the
\* refetch on expansion; fetched is what get_recent_commits returned
toggle_repo(repo, fetched) ==
    IF ~repo.expanded
    THEN [repo EXCEPT !.expanded = TRUE, !.recent_commits = fetched]
    ELSE [repo EXCEPT !.expanded = FALSE]

\* toggle_expand selecting the repository index as if it were a row
toggle_expand_index_as_row(rs, sel, fetched) ==
    IF Len(rs) = 0 THEN [repos |-> rs, selected |-> sel, fetched |-> FALSE]
    ELSE LET repo_index == get_selected_repo_index(rs, sel)
             found == repo_index < Len(rs)
             rs2 == IF found
                    THEN [rs EXCEPT ![repo_index + 1] =
                              toggle_repo(rs[repo_index + 1], fetched)]
                    ELSE rs
         IN  [repos |-> rs2,
              selected |-> repo_index,
              fetched |-> found /\ ~rs[repo_index + 1].expanded]

\* App::toggle_expand: the table and the selected row afterwards, and whether
\* get_recent_commits was called (line 303: the entry is expanded afterwards)
toggle_expand(rs, sel, fetched) ==
    IF Len(rs) = 0 THEN [repos |-> rs, selected |-> sel, fetched |-> FALSE]
    ELSE LET repo_index == get_selected_repo_index(rs, sel)
             found == repo_index < Len(rs)
             rs2 == IF found
                    THEN [rs EXCEPT ![repo_index + 1] =
                              toggle_repo(rs[repo_index + 1], fetched)]
                    ELSE rs
         IN  [repos |-> rs2,
              selected |-> calculate_table_row(rs2, repo_index),
              fetched |-> found /\ ~rs[repo_index + 1].expanded]

(* ------------- poller: monitor_repositories (lines 468-568) ----------- *)
NoResult == [status |-> "none", ahead |-> 0, behind |-> 0, branch |-> "",
             recent |-> <<>>]
ErrResult == [status |-> "err", ahead |-> 0, behind |-> 0, branch |-> "",
              recent |-> <<>>]
OkResult(a, b, br, recent) ==
    [status |-> "ok", ahead |-> a, behind |-> b, branch |-> br,
     recent |-> recent]

Branches == {"main"}

\* what one pass of the loop body can meet for a repository whose ahead
\* count was prev_ahead: get_repo_status fails, or returns (ahead, behind,
\* branch); in the latter case get_recent_commits is called only when ahead
\* grew, with count (ahead - prev_ahead).min(5)
VcsResults(prev_ahead, max_ahead, max_behind, hist_len) ==
    {ErrResult} \cup
    UNION { IF a > prev_ahead
            THEN { OkResult(a, b, br, rc) :
                     rc \in get_recent_commits(Min(a - prev_ahead, CommitCap),
                                              hist_len) }
            ELSE { OkResult(a, b, br, <<>>) } :
            a \in 0..max_ahead, b \in 0..max_behind, br \in Branches }

\* poll_status with a failed query zeroing the counts
poll_status_reset(repo, res, t) ==
    IF res.status = "ok"
    THEN [repo EXCEPT !.last_update = t, !.ahead = res.ahead,
                      !.behind = res.behind, !.current_branch = res.branch]
    ELSE [repo EXCEPT !.last_update = t, !.ahead = 0, !.behind = 0,
                      !.current_branch = "unknown"]

\* poll_status storing the commits fetched for the log in the entry
poll_status_keep_recent(repo, res, t) ==
    IF res.status = "ok"
    THEN [repo EXCEPT !.last_update = t, !.ahead = res.ahead,
                      !.behind = res.behind, !.current_branch = res.branch,
                      !.recent_commits = res.recent]
    ELSE [repo EXCEPT !.last_update = t]

\* poll_status stamping the entry in the Ok arm only
poll_status_stamp_on_ok(repo, res, t) ==
    IF res.status = "ok"
    THEN [repo EXCEPT !.last_update = t, !.ahead = res.ahead,
                      !.behind = res.behind, !.current_branch = res.branch]
    ELSE repo

\* lines 483-492: the status entry after the pass
poll_status(repo, res, t) ==
    IF res.status = "ok"
    THEN [repo EXCEPT !.last_update = t, !.ahead = res.ahead,
                      !.behind = res.behind, !.current_branch = res.branch]
    ELSE [repo EXCEPT !.last_update = t]

\* delta_messages with the `behind` test ahead of the combined one
delta_messages_behind_first(repo, res, t) ==
    LET prev_ahead == repo.ahead
        prev_behind == repo.behind
        ahead == res.ahead
        behind == res.behind
    IN  IF behind > prev_behind
        THEN << Msg(t, repo.name, "Git Monitor", "New commits available",
                    0, 0, behind, behind - prev_behind, "") >>
        ELSE IF behind > prev_behind /\ ahead > prev_ahead
        THEN << Msg(t, repo.name, "Git Monitor", "Status changed",
                    ahead, ahead - prev_ahead, behind, behind - prev_behind, "") >>
        ELSE IF ahead > prev_ahead
        THEN << Msg(t, repo.name, "Git Monitor", "Local commits added",
                    ahead, ahead - prev_ahead, 0, 0, "") >>
        ELSE << >>

\* lines 495-522: the message for the change of the counts
delta_messages(repo, res, t) ==
    LET prev_ahead == repo.ahead
        prev_behind == repo.behind
        ahead == res.ahead
        behind == res.behind
    IN  IF behind > prev_behind /\ ahead > prev_ahead
        THEN << Msg(t, repo.name, "Git Monitor", "Status changed",
                    ahead, ahead - prev_ahead, behind, behind - prev_behind, "") >>
        ELSE IF behind > prev_behind
        THEN << Msg(t, repo.name, "Git Monitor", "New commits available",
                    0, 0, behind, behind - prev_behind, "") >>
        ELSE IF ahead > prev_ahead
        THEN << Msg(t, repo.name, "Git Monitor", "Local commits added",
                    ahead, ahead - prev_ahead, 0, 0, "") >>
        ELSE << >>

\* caught_up_messages without the test of the previous counts
caught_up_messages_any_zero(repo, res, t) ==
    IF res.behind = 0 /\ res.ahead = 0
    THEN << Msg(t, repo.name, "GitOp", "Repository is now up to date",
                0, 0, 0, 0, "") >>
    ELSE << >>

\* the caught-up message without the test of the new counts
caught_up_messages_prev_only(repo, res, t) ==
    IF repo.behind > 0 \/ repo.ahead > 0
    THEN << Msg(t, repo.name, "GitOp", "Repository is now up to date",
                0, 0, 0, 0, "") >>
    ELSE << >>

\* lines 524-533: the message when the repository caught up
caught_up_messages(repo, res, t) ==
    IF (repo.behind > 0 \/ repo.ahead > 0) /\ res.behind = 0 /\ res.ahead = 0
    THEN << Msg(t, repo.name, "GitOp", "Repository is now up to date",
                0, 0, 0, 0, "") >>
    ELSE << >>

\* lines 539-546: one message per commit get_recent_commits returned
commit_messages(repo, recent, t) ==
    [k \in 1..Len(recent) |->
        Msg(t, repo.name, recent[k].author, "Commit", 0, 0, 0, 0,
            recent[k].message)]

\* lines 554-563: the diagnostic of a failed query
error_messages(repo, t) ==
    << Msg(t, repo.name, "System", "Git error", 0, 0, 0, 0, repo.path) >>

\* drain truncating the log, which drops the newest records
drain_keep_oldest(log) ==
    IF Len(log) > MaxMessages
    THEN SubSeq(log, 1, MaxMessages)
    ELSE log

\* lines 547-551: console_guard.drain(0..len - 50)
drain(log) ==
    IF Len(log) > MaxMessages
    THEN SubSeq(log, Len(log) - MaxMessages + 1, Len(log))
    ELSE log

\* poll_messages logging the commit list cached for the expanded row instead
\* of the commits just fetched
poll_messages_cached(repo, res, t) ==
    IF res.status = "ok"
    THEN delta_messages(repo, res, t) \o caught_up_messages(repo, res, t)
         \o (IF res.ahead > repo.ahead
             THEN commit_messages(repo, repo.recent_commits, t) ELSE << >>)
    ELSE error_messages(repo, t)

\* everything one pass of the loop body pushes, in order
poll_messages(repo, res, t) ==
    IF res.status = "ok"
    THEN delta_messages(repo, res, t) \o caught_up_messages(repo, res, t)
         \o (IF res.ahead > repo.ahead
             THEN commit_messages(repo, res.recent, t) ELSE << >>)
    ELSE error_messages(repo, t)

\* the console log after one pass of the loop body: the drain stands inside
\* `if ahead > prev_ahead` (lines 536-552) and nowhere else
poll_log(log, repo, res, t) ==
    IF res.status = "ok" /\ res.ahead > repo.ahead
    THEN drain(log \o poll_messages(repo, res, t))
    ELSE log \o poll_messages(repo, res, t)

\* what the loop iteration knows of a get_recent_commits call in toggle_expand
NoFetch == [called |-> FALSE, commits |-> << >>]
Fetched(commits) == [called |-> TRUE, commits |-> commits]

\* repos.lock() returning though the poller holds the mutex
can_lock_always(lock) == TRUE

\* Mutex::lock on the table (lines 220, 238, 294, 478, 578): the caller goes
\* on once no one holds the mutex
can_lock(lock) == lock = "free"

(* ---------------- startup: App::new and main (lines 759-794) ---------- *)
\* what main finds at a configured path: a checkout, nothing, or a
\* directory without .git
PathStates == {"ok", "missing", "notgit"}
\* the paths met in Spec, where every key and every tick interleave
FewPathStates == {"ok", "missing"}

\* validation_messages with `if` for `else if`: a missing path has no .git
\* below it either and draws both warnings
validation_messages_both(repo, path_state, t) ==
    (IF path_state = "missing"
     THEN << Msg(t, repo.name, "System", "Warning: Path does not exist",
                 0, 0, 0, 0, repo.path) >>
     ELSE << >>)
    \o (IF path_state \in {"missing", "notgit"}
        THEN << Msg(t, repo.name, "System", "Warning: Not a git repository",
                    0, 0, 0, 0, repo.path) >>
        ELSE << >>)

\* lines 775-791: the warning, if any, for one repository
validation_messages(repo, path_state, t) ==
    IF path_state = "missing"
    THEN << Msg(t, repo.name, "System", "Warning: Path does not exist",
                0, 0, 0, 0, repo.path) >>
    ELSE IF path_state = "notgit"
    THEN << Msg(t, repo.name, "System", "Warning: Not a git repository",
                0, 0, 0, 0, repo.path) >>
    ELSE << >>

RECURSIVE validate_from(_, _, _, _)
\* the `for repo in repos.iter()` loop of main, entered at repository i
validate_from(rs, path_states, i, t) ==
    IF i > Len(rs) THEN << >>
    ELSE validation_messages(rs[i], path_states[i], t)
         \o validate_from(rs, path_states, i + 1, t)

\* lines 767-772: "Started monitoring {} repositories"
started_message(rs, t) ==
    Msg(t, "System", "GitOp", "Started monitoring", Len(rs), 0, 0, 0, "")

\* App::new for a configuration of at most max_repos repositories: zeroed,
\* collapsed entries; the first repository selected
AppNew(max_repos) ==
    /\ \E n \in 0..max_repos : repos = [i \in 1..n |-> NewRepoStatus(i)]
    /\ console_messages = << >>
    /\ selected = IF Len(repos) = 0 THEN NoSel ELSE 0
    /\ should_quit = FALSE
    /\ pc_ui = "validate"
    /\ pc_poll = "unspawned"
    /\ poll_idx = 0
    /\ results = [i \in 1..Len(repos) |-> NoResult]
    /\ repos_lock = "free"
    /\ key = "none"
    /\ fetch = NoFetch
    /\ now = 0
    /\ ticks_left = MaxTicks
    /\ path_seen = [i \in 1..Len(repos) |-> "unseen"]
    /\ console_lock = "free"
    /\ ui_ops = << >>
    /\ poll_ops = << >>

Init == AppNew(NumRepos)

InitView == AppNew(ViewRepos)

\* main, lines 761-792: the startup validation block, the configured paths
\* being in one of path_state_set
ValidateWith(path_state_set) ==
    /\ pc_ui = "validate"
    /\ \E path_states \in [1..Len(repos) -> path_state_set] :
         /\ console_messages' = console_messages
                \o << started_message(repos, now) >>
                \o validate_from(repos, path_states, 1, now)
         /\ path_seen' = path_states
    /\ pc_ui' = "run_app"
    /\ UNCHANGED <<repos, selected, should_quit, pc_poll, poll_idx, results,
                   repos_lock, key, fetch, now, ticks_left>>
    /\ UNCHANGED <<console_lock, ui_ops, poll_ops>>

Validate == ValidateWith(FewPathStates)

ValidateAll == ValidateWith(PathStates)

\* run_app, lines 673-679: spawn the poller, enter the UI loop
RunApp ==
    /\ pc_ui = "run_app"
    /\ ui_ops = << >>
    /\ pc_ui' = "draw"
    /\ pc_poll' = "sleep"
    /\ UNCHANGED <<repos, console_messages, selected, should_quit, poll_idx,
                   results, repos_lock, key, fetch, now, ticks_left>>
    /\ UNCHANGED <<path_seen, console_lock, ui_ops, poll_ops>>

(* ------------------------- poller actions ----------------------------- *)
\* lines 476-478: the interval fires and the poller locks the table
Tick ==
    /\ pc_poll = "sleep"
    /\ can_lock(repos_lock)
    /\ ticks_left > 0
    /\ ticks_left' = ticks_left - 1
    /\ repos_lock' = "poller"
    /\ pc_poll' = "polling"
    /\ poll_idx' = 1
    /\ now' = now + 1
    /\ results' = [i \in 1..Len(repos) |-> NoResult]
    /\ UNCHANGED <<repos, console_messages, selected, should_quit, pc_ui,
                   key, fetch>>
    /\ UNCHANGED <<path_seen, console_lock, ui_ops, poll_ops>>

\* next_poll_idx with a failed query leaving the loop
next_poll_idx_break(i, res) ==
    IF res.status = "err" THEN Len(repos) + 1 ELSE i + 1

\* line 479: where `for repo in repos_guard.iter_mut()` goes after the pass
\* for repository i, whatever its query returned
next_poll_idx(i, res) == i + 1

\* after_pass with a failed query ending the poller task
after_pass_abort(res) == IF res.status = "err" THEN "stopped" ELSE "polling"

\* lines 485-564: both arms of the match fall through to the end of the loop
\* body; the task stays in the `for` loop
after_pass(res) == "polling"

\* lines 479-565: one pass of the loop body, for the repository at poll_idx,
\* the collaborator reporting counts up to max_ahead and max_behind
PollRepoWith(max_ahead, max_behind, hist_len) ==
    /\ pc_poll = "polling"
    /\ poll_idx <= Len(repos)
    /\ \E res \in VcsResults(repos[poll_idx].ahead, max_ahead, max_behind,
                           hist_len) :
         /\ repos' = [repos EXCEPT ![poll_idx] = poll_status(@, res, now)]
         /\ console_messages' =
                poll_log(console_messages, repos[poll_idx], res, now)
         /\ results' = [results EXCEPT ![poll_idx] = res]
         /\ poll_idx' = next_poll_idx(poll_idx, res)
         /\ pc_poll' = after_pass(res)
    /\ UNCHANGED <<selected, should_quit, pc_ui, repos_lock, key, fetch, now,
                   ticks_left>>
    /\ UNCHANGED <<path_seen, console_lock, ui_ops, poll_ops>>

PollRepo == PollRepoWith(MaxCount, MaxCount, HistLen)

PollRepoWide == PollRepoWith(WideAhead, WideBehind, HistLen)

\* a pass over a checkout with a long history and many unpushed commits
PollRepoDeep == PollRepoWith(DeepAhead, MaxCount, DeepHist)

\* a pass over a checkout with no local commits of its own: the query fails
\* or reports the checkout level with its remote or behind it
PollRepoBehind == PollRepoWith(0, MaxCount, HistLen)

\* line 566: drop(repos_guard), then back to interval.tick()
PollEnd ==
    /\ pc_poll = "polling"
    /\ poll_idx > Len(repos)
    /\ poll_ops = << >>
    /\ repos_lock' = "free"
    /\ pc_poll' = "sleep"
    /\ UNCHANGED <<repos, console_messages, selected, should_quit, pc_ui,
                   poll_idx, results, key, fetch, now, ticks_left>>
    /\ UNCHANGED <<path_seen, console_lock, ui_ops, poll_ops>>

(* ---------------------- interactive loop: run_app --------------------- *)
\* line 682: terminal.draw(ui): locks the table, then the console log; a new
\* iteration of the loop, no key read yet
Draw ==
    /\ pc_ui = "draw"
    /\ can_lock(repos_lock)
    /\ pc_ui' = "input"
    /\ key' = "none"
    /\ fetch' = NoFetch
    /\ UNCHANGED <<repos, console_messages, selected, should_quit, pc_poll,
                   poll_idx, results, repos_lock, now, ticks_left>>
    /\ UNCHANGED <<path_seen, console_lock, ui_ops, poll_ops>>

\* ui, line 583: `let style = Style::default()`, the style of a repository's
\* row, drawn `elapsed` seconds after the repository was last polled
row_style(repo, elapsed) == "default"

\* after_key without the break
after_key_no_break(quit) == "draw"

\* lines 698-700: leave the loop when quit was requested
after_key(quit) == IF quit THEN "done" ELSE "draw"

\* lines 688-692 with no key, or one handle_key ignores
NoKey ==
    /\ pc_ui = "input"
    /\ pc_ui' = after_key(should_quit)
    /\ UNCHANGED <<repos, console_messages, selected, should_quit, pc_poll,
                   poll_idx, results, repos_lock, key, fetch, now, ticks_left>>
    /\ UNCHANGED <<path_seen, console_lock, ui_ops, poll_ops>>

\* handle_key(Char('q'))
KeyQuit ==
    /\ pc_ui = "input"
    /\ key' = "q"
    /\ should_quit' = TRUE
    /\ pc_ui' = after_key(should_quit')
    /\ UNCHANGED <<repos, console_messages, selected, pc_poll, poll_idx,
                   results, repos_lock, fetch, now, ticks_left>>
    /\ UNCHANGED <<path_seen, console_lock, ui_ops, poll_ops>>

\* handle_key(Down): App::next, under the table's lock
KeyDown ==
    /\ pc_ui = "input"
    /\ can_lock(repos_lock)
    /\ key' = "Down"
    /\ selected' = next(repos, selected)
    /\ pc_ui' = after_key(should_quit)
    /\ UNCHANGED <<repos, console_messages, should_quit, pc_poll, poll_idx,
                   results, repos_lock, fetch, now, ticks_left>>
    /\ UNCHANGED <<path_seen, console_lock, ui_ops, poll_ops>>

\* handle_key(Up): App::previous, under the table's lock
KeyUp ==
    /\ pc_ui = "input"
    /\ can_lock(repos_lock)
    /\ key' = "Up"
    /\ selected' = previous(repos, selected)
    /\ pc_ui' = after_key(should_quit)
    /\ UNCHANGED <<repos, console_messages, should_quit, pc_poll, poll_idx,
                   results, repos_lock, fetch, now, ticks_left>>
    /\ UNCHANGED <<path_seen, console_lock, ui_ops, poll_ops>>

\* handle_key(Enter): App::toggle_expand, under the table's lock
KeyEnterWith(hist_len) ==
    /\ pc_ui = "input"
    /\ can_lock(repos_lock)
    /\ key' = "Enter"
    /\ \E fetched \in get_recent_commits(max_commits, hist_len) :
         LET after == toggle_expand(repos, selected, fetched)
         IN  /\ repos' = after.repos
             /\ selected' = after.selected
             /\ fetch' = IF after.fetched THEN Fetched(fetched) ELSE NoFetch
    /\ pc_ui' = after_key(should_quit)
    /\ UNCHANGED <<console_messages, should_quit, pc_poll, poll_idx, results,
                   repos_lock, now, ticks_left>>
    /\ UNCHANGED <<path_seen, console_lock, ui_ops, poll_ops>>

KeyEnter == KeyEnterWith(HistLen)

KeyEnterView == KeyEnterWith(ViewHist)

Next ==
    \/ Validate
    \/ RunApp
    \/ Tick
    \/ PollRepo
    \/ PollEnd
    \/ Draw
    \/ NoKey
    \/ KeyQuit
    \/ KeyDown
    \/ KeyUp
    \/ KeyEnter

Spec == Init /\ [][Next]_vars

\* The poller alone, no key pressed, the collaborator reporting larger counts.
NextPoll ==
    \/ ValidateAll
    \/ RunApp
    \/ Tick
    \/ PollRepoWide
    \/ PollEnd

SpecPoll == Init /\ [][NextPoll]_vars

\* The interactive loop alone (no poller tick falls in the run), over up to
\* ViewRepos repositories.
NextView ==
    \/ ValidateAll
    \/ RunApp
    \/ Draw
    \/ NoKey
    \/ KeyQuit
    \/ KeyDown
    \/ KeyUp
    \/ KeyEnterView

SpecView == InitView /\ [][NextView]_vars

(* A run that starts where the console log is nearly full: the state the   *)
(* program is in after FillTicks poller ticks in which every query failed  *)
(* and no key was pressed.                                                 *)
FillTicks == (MaxMessages - 1) \div NumRepos

RECURSIVE failed_pass(_, _, _, _)
\* the table and the log after the passes for repositories i.. of one tick
\* at time t, every query failing
failed_pass(rs, log, i, t) ==
    IF i > Len(rs) THEN [repos |-> rs, log |-> log]
    ELSE failed_pass([rs EXCEPT ![i] = poll_status(@, ErrResult, t)],
                     poll_log(log, rs[i], ErrResult, t), i + 1, t)

RECURSIVE failed_ticks(_, _, _, _)
\* the table and the log after the ticks at times t + 1 .. last
failed_ticks(rs, log, t, last) ==
    IF t >= last THEN [repos |-> rs, log |-> log]
    ELSE LET after == failed_pass(rs, log, 1, t + 1)
         IN  failed_ticks(after.repos, after.log, t + 1, last)

InitLog ==
    LET rs0 == [i \in 1..NumRepos |-> NewRepoStatus(i)]
        log0 == << started_message(rs0, 0) >>
        after == failed_ticks(rs0, log0, 0, FillTicks)
    IN  /\ repos = after.repos
        /\ console_messages = after.log
        /\ selected = 0
        /\ should_quit = FALSE
        /\ pc_ui = "draw"
        /\ pc_poll = "sleep"
        /\ poll_idx = NumRepos + 1
        /\ results = [i \in 1..NumRepos |-> ErrResult]
        /\ repos_lock = "free"
        /\ key = "none"
        /\ fetch = NoFetch
        /\ now = FillTicks
        /\ ticks_left = MaxTicks
        /\ path_seen = [i \in 1..NumRepos |-> "ok"]
        /\ console_lock = "free"
        /\ ui_ops = << >>
        /\ poll_ops = << >>

NextRun ==
    \/ Tick
    \/ PollRepo
    \/ PollEnd
    \/ Draw
    \/ NoKey
    \/ KeyQuit
    \/ KeyDown
    \/ KeyUp
    \/ KeyEnter

SpecLog == InitLog /\ [][NextRun]_vars

(* ------------- the two mutexes, one lock operation per step ------------ *)
(* The same program with every Mutex::lock and every release of a guard a  *)
(* step of its own. A task's pending operations are a sequence: lock or    *)
(* unlock a mutex, or act on the data the held guards give access to.      *)
Lock(m) == [op |-> "lock", m |-> m]
Unlock(m) == [op |-> "unlock", m |-> m]
Act(what) == [op |-> "act", m |-> "", what |-> what]
\* console_guard.push of msgs, and the drain after it where trim is set
Push(msgs, trim) == [op |-> "push", m |-> "console", msgs |-> msgs, trim |-> trim]

Holder(m) == IF m = "repos" THEN repos_lock ELSE console_lock

\* main, lines 762-792: repos.lock(), console_messages.lock(), the pushes;
\* the guards go at the end of the block, the later one first
validate_ops ==
    << Lock("repos"), Lock("console"), Act("validate"),
       Unlock("console"), Unlock("repos") >>

\* ui locking the console log before the table
ui_draw_ops_console_first ==
    << Lock("console"), Lock("repos"), Act("draw"),
       Unlock("repos"), Unlock("console") >>

\* ui, lines 578-669: app.repos.lock() (578), app.console_messages.lock()
\* (642), the frame; both guards go at the end of the function
ui_draw_ops ==
    << Lock("repos"), Lock("console"), Act("draw"),
       Unlock("console"), Unlock("repos") >>

\* handle_key: next, previous and toggle_expand lock the table and nothing
\* else (lines 220, 238, 294); q and other keys lock nothing
key_ops(k) ==
    IF k \in {"Down", "Up", "Enter"}
    THEN << Lock("repos"), Act(k), Unlock("repos") >>
    ELSE << Act(k) >>

\* one `let mut console_guard = console_messages.lock().unwrap()` block
console_section(msgs, trim) ==
    << Lock("console"), Push(msgs, trim), Unlock("console") >>

\* lines 494-563: the console sections of one pass, in order; the table's
\* guard is held throughout
pass_ops(repo, res, t) ==
    IF res.status = "ok"
    THEN (IF delta_messages(repo, res, t) # << >>
          THEN console_section(delta_messages(repo, res, t), FALSE)
          ELSE << >>)
         \o (IF caught_up_messages(repo, res, t) # << >>
             THEN console_section(caught_up_messages(repo, res, t), FALSE)
             ELSE << >>)
         \o (IF res.ahead > repo.ahead
             THEN console_section(commit_messages(repo, res.recent, t), TRUE)
             ELSE << >>)
    ELSE console_section(error_messages(repo, t), FALSE)

\* main reaches the validation block
LockValidate ==
    /\ pc_ui = "validate"
    /\ ui_ops = << >>
    /\ ui_ops' = validate_ops
    /\ UNCHANGED <<repos, console_messages, selected, should_quit, pc_ui,
                   pc_poll, poll_idx, results, repos_lock, key, fetch, now,
                   ticks_left, path_seen, console_lock, poll_ops>>

\* line 682: terminal.draw calls ui
LockDraw ==
    /\ pc_ui = "draw"
    /\ ui_ops = << >>
    /\ ui_ops' = ui_draw_ops
    /\ UNCHANGED <<repos, console_messages, selected, should_quit, pc_ui,
                   pc_poll, poll_idx, results, repos_lock, key, fetch, now,
                   ticks_left, path_seen, console_lock, poll_ops>>

\* lines 688-692: event::poll returns, with a key or without
LockKey ==
    /\ pc_ui = "input"
    /\ ui_ops = << >>
    /\ \E k \in {"none", "q", "Down", "Up", "Enter"} : ui_ops' = key_ops(k)
    /\ UNCHANGED <<repos, console_messages, selected, should_quit, pc_ui,
                   pc_poll, poll_idx, results, repos_lock, key, fetch, now,
                   ticks_left, path_seen, console_lock, poll_ops>>

\* the mutexes after `who` locked or released m
set_holder(m, who) ==
    /\ repos_lock' = IF m = "repos" THEN who ELSE repos_lock
    /\ console_lock' = IF m = "console" THEN who ELSE console_lock

\* the main task's Mutex::lock returns
UiLock ==
    /\ ui_ops # << >>
    /\ Head(ui_ops).op = "lock"
    /\ can_lock(Holder(Head(ui_ops).m))
    /\ set_holder(Head(ui_ops).m, "ui")
    /\ ui_ops' = Tail(ui_ops)
    /\ UNCHANGED <<repos, console_messages, selected, should_quit, pc_ui,
                   pc_poll, poll_idx, results, key, fetch, now, ticks_left,
                   path_seen, poll_ops>>

\* one of the main task's guards is dropped
UiUnlock ==
    /\ ui_ops # << >>
    /\ Head(ui_ops).op = "unlock"
    /\ set_holder(Head(ui_ops).m, "free")
    /\ ui_ops' = Tail(ui_ops)
    /\ UNCHANGED <<repos, console_messages, selected, should_quit, pc_ui,
                   pc_poll, poll_idx, results, key, fetch, now, ticks_left,
                   path_seen, poll_ops>>

\* what the main task does with the guards it holds: the validation pushes,
\* the frame, or the key's handler, as in ValidateWith, Draw, NoKey, KeyQuit,
\* KeyDown, KeyUp and KeyEnterWith
UiAct ==
    /\ ui_ops # << >>
    /\ Head(ui_ops).op = "act"
    /\ ui_ops' = Tail(ui_ops)
    /\ LET what == Head(ui_ops).what
       IN  \/ /\ what = "validate"
              /\ \E path_states \in [1..Len(repos) -> FewPathStates] :
                   /\ console_messages' = console_messages
                          \o << started_message(repos, now) >>
                          \o validate_from(repos, path_states, 1, now)
                   /\ path_seen' = path_states
              /\ pc_ui' = "run_app"
              /\ UNCHANGED <<repos, selected, should_quit, key, fetch>>
           \/ /\ what = "draw"
              /\ pc_ui' = "input"
              /\ key' = "none"
              /\ fetch' = NoFetch
              /\ UNCHANGED <<repos, console_messages, selected, should_quit,
                             path_seen>>
           \/ /\ what = "none"
              /\ pc_ui' = after_key(should_quit)
              /\ UNCHANGED <<repos, console_messages, selected, should_quit,
                             key, fetch, path_seen>>
           \/ /\ what = "q"
              /\ key' = "q"
              /\ should_quit' = TRUE
              /\ pc_ui' = after_key(should_quit')
              /\ UNCHANGED <<repos, console_messages, selected, fetch,
                             path_seen>>
           \/ /\ what \in {"Down", "Up"}
              /\ key' = what
              /\ selected' = IF what = "Down" THEN next(repos, selected)
                             ELSE previous(repos, selected)
              /\ pc_ui' = after_key(should_quit)
              /\ UNCHANGED <<repos, console_messages, should_quit, fetch,
                             path_seen>>
           \/ /\ what = "Enter"
              /\ key' = "Enter"
              /\ \E fetched \in get_recent_commits(max_commits, 0) :
                   LET after == toggle_expand(repos, selected, fetched)
                   IN  /\ repos' = after.repos
                       /\ selected' = after.selected
                       /\ fetch' = IF after.fetched THEN Fetched(fetched)
                                   ELSE NoFetch
              /\ pc_ui' = after_key(should_quit)
              /\ UNCHANGED <<console_messages, should_quit, path_seen>>
    /\ UNCHANGED <<pc_poll, poll_idx, results, repos_lock, now, ticks_left,
                   console_lock, poll_ops>>

\* lines 479-493: a pass begins under the table's guard: the query, the
\* status entry; its console sections are still to run
LockPass ==
    /\ pc_poll = "polling"
    /\ poll_idx <= Len(repos)
    /\ poll_ops = << >>
    /\ \E res \in VcsResults(repos[poll_idx].ahead, MaxCount, MaxCount, 0) :
         /\ repos' = [repos EXCEPT ![poll_idx] = poll_status(@, res, now)]
         /\ results' = [results EXCEPT ![poll_idx] = res]
         /\ poll_idx' = next_poll_idx(poll_idx, res)
         /\ pc_poll' = after_pass(res)
         /\ poll_ops' = pass_ops(repos[poll_idx], res, now)
    /\ UNCHANGED <<console_messages, selected, should_quit, pc_ui, repos_lock,
                   key, fetch, now, ticks_left, path_seen, console_lock,
                   ui_ops>>

\* the poller's console_messages.lock() returns
PollLock ==
    /\ poll_ops # << >>
    /\ Head(poll_ops).op = "lock"
    /\ can_lock(Holder(Head(poll_ops).m))
    /\ set_holder(Head(poll_ops).m, "poller")
    /\ poll_ops' = Tail(poll_ops)
    /\ UNCHANGED <<repos, console_messages, selected, should_quit, pc_ui,
                   pc_poll, poll_idx, results, key, fetch, now, ticks_left,
                   path_seen, ui_ops>>

\* the pushes of one console section, and the drain in the last one
PollPush ==
    /\ poll_ops # << >>
    /\ Head(poll_ops).op = "push"
    /\ console_messages' =
           IF Head(poll_ops).trim
           THEN drain(console_messages \o Head(poll_ops).msgs)
           ELSE console_messages \o Head(poll_ops).msgs
    /\ poll_ops' = Tail(poll_ops)
    /\ UNCHANGED <<repos, selected, should_quit, pc_ui, pc_poll, poll_idx,
                   results, repos_lock, key, fetch, now, ticks_left, path_seen,
                   console_lock, ui_ops>>

\* console_guard is dropped at the end of its block
PollUnlock ==
    /\ poll_ops # << >>
    /\ Head(poll_ops).op = "unlock"
    /\ set_holder(Head(poll_ops).m, "free")
    /\ poll_ops' = Tail(poll_ops)
    /\ UNCHANGED <<repos, console_messages, selected, should_quit, pc_ui,
                   pc_poll, poll_idx, results, key, fetch, now, ticks_left,
                   path_seen, ui_ops>>

NextLocks ==
    \/ LockValidate
    \/ RunApp
    \/ LockDraw
    \/ LockKey
    \/ UiLock
    \/ UiUnlock
    \/ UiAct
    \/ Tick
    \/ LockPass
    \/ PollLock
    \/ PollPush
    \/ PollUnlock
    \/ PollEnd

SpecLocks == Init /\ [][NextLocks]_vars

(* A run from the end of startup, NumRepos checkouts configured and found, *)
(* under the scheduling the runtime gives: the interval fires and the      *)
(* poller, which sleeps between ticks with the mutex free, gets the mutex; *)
(* each pass returns (no timeout, so this assumes the VCS call returns);   *)
(* the interactive loop draws once the mutex is free and event::poll       *)
(* returns within the tick rate, with a key or without.                    *)
InitRun ==
    LET rs0 == [i \in 1..NumRepos |-> NewRepoStatus(i)]
    IN  /\ repos = rs0
        /\ console_messages = << started_message(rs0, 0) >>
        /\ selected = 0
        /\ should_quit = FALSE
        /\ pc_ui = "draw"
        /\ pc_poll = "sleep"
        /\ poll_idx = 0
        /\ results = [i \in 1..NumRepos |-> NoResult]
        /\ repos_lock = "free"
        /\ key = "none"
        /\ fetch = NoFetch
        /\ now = 0
        /\ ticks_left = MaxTicks
        /\ path_seen = [i \in 1..NumRepos |-> "ok"]
        /\ console_lock = "free"
        /\ ui_ops = << >>
        /\ poll_ops = << >>

ReadKey == NoKey \/ KeyQuit \/ KeyDown \/ KeyUp \/ KeyEnter

NextLive ==
    \/ Tick
    \/ PollRepoBehind
    \/ PollEnd
    \/ Draw
    \/ NoKey
    \/ KeyQuit
    \/ KeyDown
    \/ KeyUp
    \/ KeyEnter

Fairness ==
    /\ WF_vars(Tick)
    /\ WF_vars(PollRepoBehind)
    /\ WF_vars(PollEnd)
    /\ WF_vars(Draw)
    /\ WF_vars(ReadKey)

SpecLive == InitRun /\ [][NextLive]_vars /\ Fairness

\* The poller alone from the end of startup, over checkouts that can be up
\* to DeepAhead commits ahead.
NextCommits ==
    \/ Tick
    \/ PollRepoDeep
    \/ PollEnd

SpecCommits == InitRun /\ [][NextCommits]_vars

(* ====================================================================== *)
(*                               Claims                                   *)
(* ====================================================================== *)
\* the step is one pass of the poller's loop body, for the repository at
\* poll_idx; its query returned results'[poll_idx]
Polled == pc_poll = "polling" /\ pc_poll' = "polling" /\ poll_idx' # poll_idx

\* the step dropped nothing from the log, and what it pushed
KeptLog ==
    /\ Len(console_messages') >= Len(console_messages)
    /\ SubSeq(console_messages', 1, Len(console_messages)) = console_messages
Pushed ==
    SubSeq(console_messages', Len(console_messages) + 1, Len(console_messages'))

IsDelta(m) ==
    m.kind \in {"Status changed", "New commits available", "Local commits added"}
IsCaughtUp(m) == m.kind = "Repository is now up to date"
IsCommit(m) == m.kind = "Commit"
IsDiagnostic(m) == m.kind = "Git error"

(* C1: the event log never holds more than 50 records, whatever mix of    *)
(* startup validation, poller ticks (successful or failing) and keys ran. *)
C1_LogWithinCapacity == Len(console_messages) <= MaxMessages

(* C2: a successful poll of a repository with previous counts (pa, pb)    *)
(* and new counts (a, b) pushes at most one delta event, chosen by first  *)
(* match: "Status changed" with both deltas if a > pa and b > pb, else    *)
(* "New commits available" with b - pb if b > pb, else "Local commits     *)
(* added" with a - pa if a > pa, else none.                               *)
C2_DeltaEvent ==
    [][ (Polled /\ results'[poll_idx].status = "ok") =>
          LET pa == repos[poll_idx].ahead
              pb == repos[poll_idx].behind
              a == results'[poll_idx].ahead
              b == results'[poll_idx].behind
              deltas == SelectSeq(Pushed, IsDelta)
          IN  /\ KeptLog
              /\ Len(deltas) <= 1
              /\ \A k \in 1..Len(deltas) : deltas[k].repo = repos[poll_idx].name
              /\ IF a > pa /\ b > pb
                 THEN /\ Len(deltas) = 1
                      /\ deltas[1].kind = "Status changed"
                      /\ deltas[1].ahead = a /\ deltas[1].d_ahead = a - pa
                      /\ deltas[1].behind = b /\ deltas[1].d_behind = b - pb
                 ELSE IF b > pb
                 THEN /\ Len(deltas) = 1
                      /\ deltas[1].kind = "New commits available"
                      /\ deltas[1].behind = b /\ deltas[1].d_behind = b - pb
                 ELSE IF a > pa
                 THEN /\ Len(deltas) = 1
                      /\ deltas[1].kind = "Local commits added"
                      /\ deltas[1].ahead = a /\ deltas[1].d_ahead = a - pa
                 ELSE Len(deltas) = 0 ]_vars

\* (0,0) -> (2,3) was polled: the log ends with the combined event citing
\* +2 ahead, +3 behind (and the commits fetched for it)
C2_Witness ==
    \E i \in 1..Len(repos) :
      /\ results[i].status = "ok"
      /\ results[i].ahead = 2 /\ results[i].behind = 3
      /\ repos[i].ahead = 2 /\ repos[i].behind = 3
      /\ \E k \in 1..Len(console_messages) :
           /\ console_messages[k].repo = repos[i].name
           /\ console_messages[k].kind = "Status changed"
           /\ console_messages[k].d_ahead = 2
           /\ console_messages[k].d_behind = 3
           /\ console_messages[k].timestamp = now

(* C3: a successful poll pushes exactly one "caught up" event if and only *)
(* if the previous counts were diverged (pa > 0 or pb > 0) and the new    *)
(* counts are both 0; it then pushes no delta event for that repository.  *)
C3_CaughtUp ==
    [][ (Polled /\ results'[poll_idx].status = "ok") =>
          LET pa == repos[poll_idx].ahead
              pb == repos[poll_idx].behind
              a == results'[poll_idx].ahead
              b == results'[poll_idx].behind
              ups == SelectSeq(Pushed, IsCaughtUp)
          IN  /\ KeptLog
              /\ Len(ups) <= 1
              /\ Len(ups) = 1 <=> ((pa > 0 \/ pb > 0) /\ a = 0 /\ b = 0)
              /\ Len(ups) = 1 =>
                   /\ ups[1].repo = repos[poll_idx].name
                   /\ SelectSeq(Pushed, IsDelta) = << >>
                   /\ SelectSeq(Pushed, IsCommit) = << >> ]_vars

\* (2,3) -> (0,0) was polled: a combined event for (2,3) and, from the
\* current tick, a "caught up" event for the same repository
C3_Witness ==
    \E i \in 1..Len(repos) :
      /\ results[i].status = "ok"
      /\ repos[i].ahead = 0 /\ repos[i].behind = 0
      /\ \E k \in 1..Len(console_messages) :
           /\ console_messages[k].repo = repos[i].name
           /\ console_messages[k].kind = "Status changed"
           /\ console_messages[k].ahead = 2 /\ console_messages[k].behind = 3
           /\ console_messages[k].timestamp = now - 1
      /\ \E k \in 1..Len(console_messages) :
           /\ console_messages[k].repo = repos[i].name
           /\ IsCaughtUp(console_messages[k])
           /\ console_messages[k].timestamp = now

(* C4: when the query for repository X fails in a tick, X's ahead count,  *)
(* behind count and branch are after the tick what they were before it    *)
(* (the pass for X keeps them, no other pass of the tick touches X), and  *)
(* exactly one diagnostic record naming X is pushed.                      *)
C4_FailureKeepsStatus ==
    [][ /\ pc_poll = "polling" =>
            \A j \in 1..Len(repos) : j # poll_idx => repos'[j] = repos[j]
        /\ (Polled /\ results'[poll_idx].status = "err") =>
            /\ poll_idx' = poll_idx + 1
            /\ repos'[poll_idx].ahead = repos[poll_idx].ahead
            /\ repos'[poll_idx].behind = repos[poll_idx].behind
            /\ repos'[poll_idx].current_branch = repos[poll_idx].current_branch
            /\ KeptLog
            /\ Len(Pushed) = 1
            /\ IsDiagnostic(Pushed[1])
            /\ Pushed[1].repo = repos[poll_idx].name
            /\ Pushed[1].text = repos[poll_idx].path ]_vars

\* a tick is over in which the query failed for a repository that was
\* diverged on a known branch: it still is
C4_Witness ==
    /\ pc_poll = "sleep"
    /\ \E i \in 1..Len(repos) :
         /\ results[i].status = "err"
         /\ repos[i].ahead > 0 /\ repos[i].behind > 0
         /\ repos[i].current_branch = "main"
         /\ console_messages[Len(console_messages)].kind = "Git error"

(* C5: a failed query does not abort the tick: the passes run in          *)
(* configured order, every repository before poll_idx has been queried    *)
(* in this tick and none after it, and when the tick is over every        *)
(* repository has been queried and, where the query succeeded, updated.   *)
C5_TickCoversAll ==
    /\ pc_poll = "polling" =>
         /\ poll_idx \in 1..(Len(repos) + 1)
         /\ \A i \in 1..Len(repos) :
              (i < poll_idx) <=> (results[i].status # "none")
    /\ (pc_poll = "sleep" /\ ticks_left < MaxTicks) =>
         \A i \in 1..Len(repos) :
           /\ results[i].status \in {"ok", "err"}
           /\ repos[i].last_update = now
           /\ results[i].status = "ok" =>
                /\ repos[i].ahead = results[i].ahead
                /\ repos[i].behind = results[i].behind
                /\ repos[i].current_branch = results[i].branch

\* a tick is over in which the first repository failed and the second was
\* polled with success and took its new counts
C5_Witness ==
    /\ pc_poll = "sleep"
    /\ Len(repos) >= 2
    /\ results[1].status = "err"
    /\ results[2].status = "ok"
    /\ results[2].ahead = 2 /\ repos[2].ahead = 2
    /\ repos[2].last_update = now

(* --- the table's rows, stated apart from the code's two walks --------- *)
\* rows repository i (1-based) takes: its own and, expanded, its commits
RowSpan(rs, i) ==
    1 + (IF rs[i].expanded THEN Len(rs[i].recent_commits) ELSE 0)

RECURSIVE RowsOf(_, _)
\* rows the first i repositories take
RowsOf(rs, i) == IF i = 0 THEN 0 ELSE RowsOf(rs, i - 1) + RowSpan(rs, i)

TotalRows(rs) == RowsOf(rs, Len(rs))
\* the row of repository k (0-based) itself
RepoRow(rs, k) == RowsOf(rs, k)
\* the repositories (0-based) whose rows include row r
Owners(rs, r) ==
    { k \in 0..(Len(rs) - 1) : RepoRow(rs, k) <= r /\ r < RowsOf(rs, k + 1) }
\* the step handled key k in the interactive loop
Handled(k) == pc_ui = "input" /\ pc_ui' # "input" /\ key' = k

(* C6: unflatten(flatten(i)) = i for every repository index i, whatever   *)
(* the expand flags and the lengths of the commit lists: the row          *)
(* calculate_table_row gives for i, get_selected_repo_index resolves to i.*)
C6_UnflattenFlatten ==
    \A i \in 0..(Len(repos) - 1) :
      get_selected_repo_index(repos, calculate_table_row(repos, i)) = i

\* three repositories, the first expanded with an empty commit list, the
\* second expanded with two commits, the third selected by Down
C6_Witness ==
    /\ Len(repos) = 3
    /\ repos[1].expanded /\ Len(repos[1].recent_commits) = 0
    /\ repos[2].expanded /\ Len(repos[2].recent_commits) = 2
    /\ ~repos[3].expanded
    /\ key = "Down"
    /\ selected = calculate_table_row(repos, 2)
    /\ selected = 4

(* C7 as stated: flatten(unflatten(r)) = r for every valid flat row r,    *)
(* repository rows and commit sub-rows alike.                             *)
C7_FlattenUnflattenAllRows ==
    \A r \in 0..(TotalRows(repos) - 1) :
      calculate_table_row(repos, get_selected_repo_index(repos, r)) = r

(* C7 amended: every valid flat row r resolves to the one repository      *)
(* whose rows include it, and flatten gives that repository's own row;    *)
(* so flatten(unflatten(r)) = r exactly for the repository rows, and for  *)
(* a commit sub-row it is the row of the owning repository, above r.      *)
C7_FlattenUnflattenRepoRows ==
    \A r \in 0..(TotalRows(repos) - 1) :
      LET k == get_selected_repo_index(repos, r)
          back == calculate_table_row(repos, k)
      IN  /\ Owners(repos, r) = {k}
          /\ back = RepoRow(repos, k)
          /\ (back = r) <=> (\E i \in 0..(Len(repos) - 1) : RepoRow(repos, i) = r)
          /\ (back # r) => back < r

\* Enter has expanded the second of three repositories into two commit
\* rows, below an expanded first one
C7_Witness ==
    /\ Len(repos) = 3
    /\ key = "Enter"
    /\ fetch.called /\ Len(fetch.commits) = 2
    /\ repos[1].expanded /\ Len(repos[1].recent_commits) = 1
    /\ repos[2].expanded /\ Len(repos[2].recent_commits) = 2
    /\ selected = 2
    /\ TotalRows(repos) = 6

(* C8: with a non-empty list, next() moves the selected repository index  *)
(* from k to (k+1) mod n and previous() from k to (k-1) mod n, whichever  *)
(* repositories are expanded; the new selection is that repository's row. *)
C8_NavigationWraps ==
    [][ (Len(repos) > 0 /\ (Handled("Down") \/ Handled("Up"))) =>
          LET n == Len(repos)
              from == Owners(repos, selected)
              to == IF key' = "Down"
                    THEN { (k + 1) % n : k \in from }
                    ELSE { (k + n - 1) % n : k \in from }
          IN  /\ Cardinality(from) = 1
              /\ repos' = repos
              /\ Owners(repos', selected') = to
              /\ \A k \in to : selected' = RepoRow(repos', k) ]_vars

\* Down from the last of three repositories, the second one expanded with
\* two commits: the first is selected
C8_Witness ==
    /\ Len(repos) = 3
    /\ key = "Down"
    /\ selected = 0
    /\ repos[2].expanded /\ Len(repos[2].recent_commits) = 2

(* C9: with a non-empty list the selected flat row is always a valid row  *)
(* and the row of exactly one repository itself, never a commit sub-row,  *)
(* after any sequence of next, previous, toggle and poller ticks.         *)
C9_SelectionOnRepoRow ==
    Len(repos) > 0 =>
      /\ selected # NoSel
      /\ selected >= 0 /\ selected < TotalRows(repos)
      /\ Cardinality({ k \in 0..(Len(repos) - 1) : RepoRow(repos, k) = selected }) = 1

\* after a poller tick, Enter has expanded the second repository, selected
\* below the first one's commit row
C9_Witness ==
    /\ Len(repos) = 2
    /\ now >= 1
    /\ repos[1].expanded /\ Len(repos[1].recent_commits) = 1
    /\ repos[2].expanded
    /\ repos[2].ahead > 0
    /\ key = "Enter" /\ fetch.called
    /\ selected = 2

(* C10: Enter flips the expand flag of the selected repository only,      *)
(* leaves every other repository's entry as it was, keeps the selected    *)
(* repository index while the row count changes, refetches the commit     *)
(* list on collapsed -> expanded and leaves it on expanded -> collapsed.  *)
C10_ToggleFrame ==
    [][ (Len(repos) > 0 /\ Handled("Enter")) =>
          \A k \in Owners(repos, selected) :
            LET old == repos[k + 1]
                new == repos'[k + 1]
            IN  /\ Owners(repos, selected) = {k}
                /\ Len(repos') = Len(repos)
                /\ new.expanded = ~old.expanded
                /\ \A j \in 1..Len(repos) : j # k + 1 => repos'[j] = repos[j]
                /\ new = [old EXCEPT !.expanded = new.expanded,
                                     !.recent_commits = new.recent_commits]
                /\ Owners(repos', selected') = {k}
                /\ selected' = RepoRow(repos', k)
                /\ IF old.expanded
                   THEN /\ new.recent_commits = old.recent_commits
                        /\ ~fetch'.called
                   ELSE /\ fetch'.called
                        /\ new.recent_commits = fetch'.commits ]_vars

\* Enter has collapsed the second of three repositories, selected below an
\* expanded first one: it keeps its two cached commits and the selection
C10_Witness ==
    /\ Len(repos) = 3
    /\ key = "Enter"
    /\ ~fetch.called
    /\ repos[1].expanded /\ Len(repos[1].recent_commits) = 2
    /\ ~repos[2].expanded /\ Len(repos[2].recent_commits) = 2
    /\ selected = 3
    /\ TotalRows(repos) = 5

(* C12: with an empty repository list nothing is selected, at startup and *)
(* after any sequence of Up, Down and Enter: each of these keys leaves    *)
(* the selection, the table and the commit fetch untouched.               *)
C12_EmptyListNoOps ==
    [][ Len(repos) = 0 =>
          /\ selected = NoSel
          /\ selected' = NoSel
          /\ repos' = repos
          /\ (Handled("Up") \/ Handled("Down") \/ Handled("Enter")) =>
                ~fetch'.called ]_vars

\* the table is empty and Up, the last key handled, selected nothing
C12_Witness ==
    /\ Len(repos) = 0
    /\ pc_ui = "draw"
    /\ key = "Up"
    /\ selected = NoSel

(* --- what a reader of the table and the log can see ------------------- *)
\* the records of the current tick that name repository i
TickEvents(i) ==
    SelectSeq(console_messages,
              LAMBDA m : m.timestamp = now /\ m.repo = repos[i].name)

\* table and log as they stand after a whole number of ticks: no pass is
\* pending, every repository went through the same ticks, and each one's
\* counts stand next to the records derived from them
WholeTicks ==
    /\ pc_poll # "polling"
    /\ repos_lock = "free"
    /\ \A i \in 1..Len(repos) :
         LET ev == TickEvents(i)
             deltas == SelectSeq(ev, IsDelta)
         IN  /\ repos[i].last_update = now
             /\ now > 0 => results[i].status \in {"ok", "err"}
             /\ results[i].status = "ok" =>
                  /\ repos[i].ahead = results[i].ahead
                  /\ repos[i].behind = results[i].behind
                  /\ SelectSeq(ev, IsDiagnostic) = << >>
             /\ results[i].status = "err" =>
                  /\ Len(ev) = 1
                  /\ IsDiagnostic(ev[1])
             /\ \A k \in 1..Len(ev) :
                  /\ ev[k].kind \in {"Status changed", "Local commits added"}
                       => ev[k].ahead = repos[i].ahead
                  /\ ev[k].kind \in {"Status changed", "New commits available"}
                       => ev[k].behind = repos[i].behind
                  /\ IsCaughtUp(ev[k])
                       => repos[i].ahead = 0 /\ repos[i].behind = 0
                  /\ IsCommit(ev[k])
                       => Len(deltas) = 1 /\ deltas[1].d_ahead > 0
             \* counts that left (0, 0) in the first tick show with an event
             /\ (now = 1 /\ (repos[i].ahead > 0 \/ repos[i].behind > 0))
                  => Len(deltas) = 1

(* C13: no reader sees a partially applied tick: the poller holds the     *)
(* table's lock from the start of a tick to the end of its last pass, the *)
(* interactive loop neither draws nor handles Up, Down or Enter meanwhile,*)
(* and every frame is drawn from a table and a log that stand as after a  *)
(* whole number of ticks, counts and the events derived from them alike.  *)
C13_TickAtomic ==
    [][ /\ (pc_poll = "polling") <=> (repos_lock = "poller")
        /\ (repos_lock = "free" /\ repos_lock' = "poller") => poll_idx' = 1
        /\ (repos_lock = "poller" /\ repos_lock' = "free") =>
              /\ poll_idx = Len(repos) + 1
              /\ \A i \in 1..Len(repos) : results[i].status # "none"
        /\ repos_lock = "poller" =>
              /\ pc_ui = "draw" => pc_ui' = "draw"
              /\ key' \in {key, "q"}
              /\ selected' = selected
              /\ \A i \in 1..Len(repos) :
                   /\ repos'[i].expanded = repos[i].expanded
                   /\ repos'[i].recent_commits = repos[i].recent_commits
        /\ (pc_ui = "draw" /\ pc_ui' = "input") => WholeTicks ]_vars

\* a frame was drawn after a tick in which the first repository's query
\* failed and the second one fell behind: the table shows the new count and
\* the log the event derived from it
C13_Witness ==
    /\ pc_ui = "input"
    /\ pc_poll = "sleep"
    /\ now = 2
    /\ Len(repos) = 2
    /\ results[1].status = "err"
    /\ results[2].status = "ok"
    /\ repos[2].behind = 1
    /\ Len(TickEvents(2)) = 1
    /\ TickEvents(2)[1].kind = "New commits available"

\* the step is one of the poller's: a tick starts, a pass runs, a tick ends
PollerStep == pc_poll' # pc_poll \/ poll_idx' # poll_idx
\* the step handled Up, Down or Enter
KeyStep == Handled("Up") \/ Handled("Down") \/ Handled("Enter")

(* C14: each shared field has one writer. A poller step changes only      *)
(* counts, branch, last-poll time and the log, never an expand flag, a    *)
(* cached commit list or the selection; Up, Down and Enter change only    *)
(* the selection, expand flags and commit lists, never counts, branch or  *)
(* the log; number, order and names of the repositories never change.     *)
C14_SingleWriter ==
    [][ /\ Len(repos') = Len(repos)
        /\ \A i \in 1..Len(repos) :
             /\ repos'[i].name = repos[i].name
             /\ repos'[i].path = repos[i].path
             /\ repos[i].name = Names[i]
        /\ PollerStep =>
             /\ selected' = selected
             /\ \A i \in 1..Len(repos) :
                  /\ repos'[i].expanded = repos[i].expanded
                  /\ repos'[i].recent_commits = repos[i].recent_commits
        /\ KeyStep =>
             /\ console_messages' = console_messages
             /\ \A i \in 1..Len(repos) :
                  /\ repos'[i].ahead = repos[i].ahead
                  /\ repos'[i].behind = repos[i].behind
                  /\ repos'[i].current_branch = repos[i].current_branch
                  /\ repos'[i].last_update = repos[i].last_update
        /\ (\E i \in 1..Len(repos) :
               \/ repos'[i].ahead # repos[i].ahead
               \/ repos'[i].behind # repos[i].behind
               \/ repos'[i].current_branch # repos[i].current_branch
               \/ repos'[i].last_update # repos[i].last_update) => Polled
        /\ (\/ selected' # selected
            \/ \E i \in 1..Len(repos) :
                 \/ repos'[i].expanded # repos[i].expanded
                 \/ repos'[i].recent_commits # repos[i].recent_commits)
             => KeyStep ]_vars

\* both writers have acted on the second repository: Enter expanded it into
\* one commit, and a later tick, which fetched a commit for the log, raised
\* its ahead count
C14_Witness ==
    /\ Len(repos) = 2
    /\ pc_poll = "sleep"
    /\ key = "Enter"
    /\ selected = 1
    /\ repos[2].expanded /\ Len(repos[2].recent_commits) = 1
    /\ results[2].status = "ok" /\ Len(results[2].recent) = 1
    /\ repos[2].ahead = 1 /\ repos[2].last_update = now

C16_Quit ==
    [][ /\ Handled("q") =>
              /\ should_quit'
              /\ pc_ui' = "done"
              /\ selected' = selected
              /\ repos' = repos
        /\ should_quit => should_quit'
        /\ should_quit' => pc_ui' = "done"
        /\ pc_ui = "done" =>
              /\ pc_ui' = "done"
              /\ key' = "q"
              /\ selected' = selected
              /\ fetch' = fetch ]_vars

\* q was read with the second repository selected below the expanded first
\* one; the loop is done, and the poller is in the middle of a tick
C16_Witness ==
    /\ should_quit
    /\ pc_ui = "done"
    /\ key = "q"
    /\ Len(repos) = 2
    /\ repos[1].expanded /\ Len(repos[1].recent_commits) = 1
    /\ selected = 2
    /\ pc_poll = "polling"
    /\ poll_idx = 2
    /\ now = 2

(* --- the records a pass appends, as a function of its inputs alone ---- *)
\* repository and message (kind and arguments) of a record, without its time
Content(m) == [m EXCEPT !.timestamp = 0]
\* the records due for a repository of the given name and path whose counts
\* were (pa, pb), when its query returned res: a diagnostic on failure;
\* else the delta event, the caught-up event, one record per commit fetched
ExpectedEvents(name, path, pa, pb, res) ==
    LET a == res.ahead
        b == res.behind
        delta == CASE a > pa /\ b > pb ->
                        << Msg(0, name, "Git Monitor", "Status changed",
                               a, a - pa, b, b - pb, "") >>
                   [] b > pb /\ a <= pa ->
                        << Msg(0, name, "Git Monitor", "New commits available",
                               0, 0, b, b - pb, "") >>
                   [] a > pa /\ b <= pb ->
                        << Msg(0, name, "Git Monitor", "Local commits added",
                               a, a - pa, 0, 0, "") >>
                   [] OTHER -> << >>
        caught == IF (pa > 0 \/ pb > 0) /\ a = 0 /\ b = 0
                  THEN << Msg(0, name, "GitOp", "Repository is now up to date",
                              0, 0, 0, 0, "") >>
                  ELSE << >>
        commits == IF a > pa
                   THEN [k \in 1..Len(res.recent) |->
                           Msg(0, name, res.recent[k].author, "Commit",
                               0, 0, 0, 0, res.recent[k].message)]
                   ELSE << >>
    IN  IF res.status = "err"
        THEN << Msg(0, name, "System", "Git error", 0, 0, 0, 0, path) >>
        ELSE delta \o caught \o commits

\* position of a repository in the configured order; 0 for "System"
RepoIdx(name) ==
    IF \E i \in 1..Len(repos) : repos[i].name = name
    THEN CHOOSE i \in 1..Len(repos) : repos[i].name = name
    ELSE 0

(* C17: within one tick the repositories are processed in configured      *)
(* order: the log runs in tick order and, within a tick, every record of  *)
(* repository i stands before every record of repository j when i comes   *)
(* before j. What a pass appends (repository and message of each record,  *)
(* in order) is a function of the repository's previous counts and the    *)
(* VCS results of the pass alone, whatever keys were handled in between;  *)
(* no other step after startup appends anything.                          *)
C17_OrderedDeterministic ==
    [][ /\ console_messages' # console_messages =>
             \A k \in 1..(Len(console_messages') - 1) :
               LET m == console_messages'[k]
                   n == console_messages'[k + 1]
               IN  /\ m.timestamp <= n.timestamp
                   /\ m.timestamp = n.timestamp
                        => RepoIdx(m.repo) <= RepoIdx(n.repo)
        /\ Polled =>
             /\ poll_idx' = poll_idx + 1
             /\ KeptLog
             /\ [k \in 1..Len(Pushed) |-> Content(Pushed[k])] =
                  ExpectedEvents(repos[poll_idx].name, repos[poll_idx].path,
                                 repos[poll_idx].ahead, repos[poll_idx].behind,
                                 results'[poll_idx])
             /\ \A k \in 1..Len(Pushed) : Pushed[k].timestamp = now
        /\ (~Polled /\ pc_ui # "validate") =>
             console_messages' = console_messages ]_vars

\* the second tick is over: the log holds a diagnostic of the first
\* repository followed by the event and the commit of the second, which
\* Enter had expanded in between with an empty commit list
C17_Witness ==
    /\ Len(repos) = 2
    /\ now = 2
    /\ pc_poll = "sleep"
    /\ repos[2].expanded /\ repos[2].recent_commits = << >>
    /\ Len(TickEvents(1)) = 1 /\ IsDiagnostic(TickEvents(1)[1])
    /\ Len(TickEvents(2)) = 2
    /\ TickEvents(2)[1].kind = "Local commits added"
    /\ IsCommit(TickEvents(2)[2])
    /\ IsCommit(console_messages[Len(console_messages)])
    /\ IsDiagnostic(console_messages[Len(console_messages) - 2])

(* --- the highlight a reader finds on a repository --------------------- *)
\* active(color class, expiry = set_at + total seconds, total seconds)
Active(class, set_at, total) ==
    [state |-> "active", class |-> class, set_at |-> set_at, total |-> total]
\* the highlight state an entry of the table carries, none if it has no such
\* field
Highlight(repo) ==
    IF "highlight" \in DOMAIN repo THEN repo.highlight ELSE [state |-> "none"]

(* C18: a successful poll in which behind increases, alone or together    *)
(* with ahead, sets the repository's highlight to active(red, now + 30 s, *)
(* 30 s); one in which the repository goes from diverged to fully synced  *)
(* sets it to active(green, now + 5 s, 5 s); the new state replaces the   *)
(* old one, durations are not added.                                      *)
C18_Highlight ==
    [][ (Polled /\ results'[poll_idx].status = "ok") =>
          LET pa == repos[poll_idx].ahead
              pb == repos[poll_idx].behind
              a == results'[poll_idx].ahead
              b == results'[poll_idx].behind
              h == Highlight(repos'[poll_idx])
          IN  /\ b > pb => h = Active("red", now, 30)
              /\ ((pa > 0 \/ pb > 0) /\ a = 0 /\ b = 0)
                   => h = Active("green", now, 5) ]_vars

\* the repository fell behind in the tick that just ended
FellBehind(i) ==
    /\ pc_poll = "sleep"
    /\ results[i].status = "ok"
    /\ \E k \in 1..Len(TickEvents(i)) : TickEvents(i)[k].d_behind > 0

(* C19: the tier of a row's highlight follows remaining / total: for a    *)
(* repository that fell behind (total 30 s), a frame drawn 5 s after the  *)
(* poll (25 s remain) shows "maximum emphasis", one drawn after 20 s      *)
(* (10 s remain) "plain color", one after 29 s (1 s remains) "minimal     *)
(* emphasis", and one after 30 s or more no highlight.                    *)
C19_HighlightTier ==
    \A i \in 1..Len(repos) :
      FellBehind(i) =>
        /\ row_style(repos[i], 5) = "maximum emphasis"
        /\ row_style(repos[i], 20) = "plain color"
        /\ row_style(repos[i], 29) = "minimal emphasis"
        /\ row_style(repos[i], 30) = "default"

(* C20: the log is append-only and keeps insertion order. Every step that *)
(* changes it appends the records of one pass, stamped with the time of   *)
(* the tick, behind the records it held, and drops records, if any, from  *)
(* the front only: the new log is a suffix of the old log followed by the *)
(* appended records, nothing in it modified or moved; when records are    *)
(* dropped, exactly the 50 most recent ones remain.                       *)
C20_AppendOnly ==
    [][ console_messages' # console_messages =>
          /\ Polled
          /\ LET old == console_messages
                  exp == ExpectedEvents(repos[poll_idx].name,
                                        repos[poll_idx].path,
                                        repos[poll_idx].ahead,
                                        repos[poll_idx].behind,
                                        results'[poll_idx])
                  all == old \o [k \in 1..Len(exp) |->
                                  [exp[k] EXCEPT !.timestamp = now]]
                  dropped == Len(all) - Len(console_messages')
              IN  /\ exp # << >>
                  /\ dropped \in 0..Len(old)
                  /\ console_messages' = SubSeq(all, dropped + 1, Len(all))
                  /\ dropped > 0 => Len(console_messages') = MaxMessages ]_vars

\* a trim has happened: the log holds 50 records, the startup record and
\* the oldest diagnostic are gone from its front, and the commit record the
\* trimming pass pushed last stands at its end
C20_Witness ==
    /\ Len(console_messages) = MaxMessages
    /\ IsDiagnostic(console_messages[1])
    /\ console_messages[1].timestamp = 1
    /\ console_messages[1].repo = repos[2].name
    /\ IsCommit(console_messages[MaxMessages])
    /\ IsDelta(console_messages[MaxMessages - 1])
    /\ console_messages[MaxMessages].timestamp = now

(* C21 as stated: a pass advances the repository's last-poll timestamp    *)
(* if and only if its query succeeded; on failure the whole prior status  *)
(* entry, timestamp included, is retained.                                *)
C21_TimestampIffSuccess ==
    [][ Polled =>
          /\ (repos'[poll_idx].last_update # repos[poll_idx].last_update)
                <=> (results'[poll_idx].status = "ok")
          /\ results'[poll_idx].status = "err"
                => repos'[poll_idx] = repos[poll_idx] ]_vars

(* C21 amended: every pass advances the repository's last-poll timestamp  *)
(* to the time of the tick, whether its query succeeded or failed: on     *)
(* success also when counts and branch come back unchanged, and on        *)
(* failure with every other field of the entry retained.                  *)
C21_TimestampEveryPoll ==
    [][ Polled =>
          LET old == repos[poll_idx]
              new == repos'[poll_idx]
              res == results'[poll_idx]
          IN  /\ new.last_update = now
              /\ new.last_update > old.last_update
              /\ res.status = "err" =>
                    new = [old EXCEPT !.last_update = now]
              /\ res.status = "ok" =>
                    new = [old EXCEPT !.last_update = now,
                                      !.ahead = res.ahead,
                                      !.behind = res.behind,
                                      !.current_branch = res.branch] ]_vars

\* the second tick is over: the first repository's query failed in it and
\* the second one's returned the counts and branch it already had; both
\* carry the time of this tick
C21_Witness ==
    /\ Len(repos) = 2
    /\ now = 2
    /\ pc_poll = "sleep"
    /\ results[1].status = "err"
    /\ repos[1].ahead = 2 /\ repos[1].behind = 3
    /\ repos[1].last_update = 2
    /\ results[2].status = "ok"
    /\ repos[2].ahead = 1 /\ repos[2].behind = 1
    /\ TickEvents(2) = << >>
    /\ repos[2].last_update = 2

\* the records the pass of this step appended for its repository: those of
\* the new log that carry the time of the tick and the repository's name
NewRecords ==
    SelectSeq(console_messages',
              LAMBDA m : m.timestamp = now /\ m.repo = repos[poll_idx].name)

(* C22: a successful poll in which ahead increased by d appends at most   *)
(* min(d, 5) per-commit records for the repository, one per commit the    *)
(* VCS collaborator returned, with its author and message, all of them    *)
(* after the repository's one delta event; a poll in which ahead did not  *)
(* increase, or which failed, appends no per-commit record.               *)
C22_CommitRecords ==
    [][ Polled =>
          LET pa == repos[poll_idx].ahead
              res == results'[poll_idx]
              d == res.ahead - pa
              commits == SelectSeq(NewRecords, IsCommit)
          IN  IF res.status = "ok" /\ d > 0
              THEN /\ Len(commits) <= Min(d, 5)
                   /\ Len(commits) = Len(res.recent)
                   /\ \A k \in 1..Len(commits) :
                        /\ commits[k].author = res.recent[k].author
                        /\ commits[k].text = res.recent[k].message
                   /\ Len(NewRecords) = 1 + Len(commits)
                   /\ IsDelta(NewRecords[1])
                   /\ NewRecords[1].d_ahead = d
                   /\ \A k \in 2..Len(NewRecords) : IsCommit(NewRecords[k])
              ELSE commits = << >> ]_vars

\* the first repository went from 0 to 6 ahead in the tick just ended and
\* the collaborator returned 5 of its 6 commits: one delta event, then 5
\* records; the second went 2 ahead and only one commit came back
C22_Witness ==
    /\ pc_poll = "sleep"
    /\ now = 1
    /\ results[1].status = "ok" /\ results[1].ahead = 6
    /\ Len(results[1].recent) = 5
    /\ Len(TickEvents(1)) = 6
    /\ TickEvents(1)[1].kind = "Local commits added"
    /\ IsCommit(TickEvents(1)[6])
    /\ results[2].status = "ok" /\ results[2].ahead = 2
    /\ Len(TickEvents(2)) = 2
    /\ IsCommit(TickEvents(2)[2])

\* the step is main's startup validation block
Validated == pc_ui = "validate" /\ pc_ui' = "run_app"
IsInfo(m) == m.kind = "Started monitoring"

(* C23: startup validation runs before the poller is started, on an empty *)
(* log: it appends exactly one informational record giving the number of  *)
(* repositories and then, per repository and in order, a "path does not   *)
(* exist" warning when the path is missing, else a "not a git repository" *)
(* warning when the path has no .git, else nothing. Every poller record   *)
(* comes after these. A warned repository stays in the table with zero    *)
(* counts and is polled in every tick like the others.                    *)
C23_StartupValidation ==
    [][ /\ Validated =>
             LET log == console_messages'
                 warned == { i \in 1..Len(repos) : path_seen'[i] # "ok" }
             IN  /\ pc_poll = "unspawned" /\ pc_poll' = "unspawned"
                 /\ console_messages = << >>
                 /\ repos' = repos
                 /\ \A i \in 1..Len(repos) :
                      repos[i].ahead = 0 /\ repos[i].behind = 0
                 /\ Len(log) = 1 + Cardinality(warned)
                 /\ IsInfo(log[1])
                 /\ log[1].ahead = Len(repos)
                 /\ Len(SelectSeq(log, IsInfo)) = 1
                 /\ \A k \in 2..(Len(log) - 1) :
                      RepoIdx(log[k].repo) < RepoIdx(log[k + 1].repo)
                 /\ \A i \in 1..Len(repos) :
                      LET w == SelectSeq(log, LAMBDA m : m.repo = repos[i].name)
                      IN  CASE path_seen'[i] = "missing" ->
                                 /\ Len(w) = 1
                                 /\ w[1].kind = "Warning: Path does not exist"
                                 /\ w[1].text = repos[i].path
                            [] path_seen'[i] = "notgit" ->
                                 /\ Len(w) = 1
                                 /\ w[1].kind = "Warning: Not a git repository"
                                 /\ w[1].text = repos[i].path
                            [] OTHER -> path_seen'[i] = "ok" /\ w = << >>
        /\ (pc_poll = "unspawned" /\ ~Validated) =>
             console_messages' = console_messages
        /\ Polled =>
             /\ IsInfo(console_messages[1])
             /\ \A i \in 1..Len(repos) : path_seen[i] # "unseen"
             /\ IsInfo(console_messages'[1])
        /\ (pc_poll = "polling" /\ pc_poll' = "sleep") =>
             \A i \in 1..Len(repos) :
               /\ results[i].status \in {"ok", "err"}
               /\ repos[i].last_update = now
               /\ repos[i].name = Names[i] ]_vars

\* two repositories, the first path missing, the second without .git: the
\* log begins with the count and one warning each, and the first tick has
\* polled both, the second with success
C23_Witness ==
    /\ Len(repos) = 2
    /\ path_seen = << "missing", "notgit" >>
    /\ pc_poll = "sleep" /\ now = 1
    /\ IsInfo(console_messages[1]) /\ console_messages[1].ahead = 2
    /\ console_messages[2].kind = "Warning: Path does not exist"
    /\ console_messages[2].repo = "A"
    /\ console_messages[3].kind = "Warning: Not a git repository"
    /\ console_messages[3].repo = "B"
    /\ results[1].status = "err"
    /\ IsDiagnostic(console_messages[4])
    /\ results[2].status = "ok" /\ repos[2].behind = 1

\* the mutexes a task holds
Held(who) == {m \in {"repos", "console"} : Holder(m) = who}
\* a task standing at a Mutex::lock that cannot return yet
Waiting(ops) ==
    /\ ops # << >>
    /\ Head(ops).op = "lock"
    /\ Holder(Head(ops).m) # "free"
\* the mutexes `who` locked in this step
Acquired(who) ==
    {m \in {"repos", "console"} : Holder(m) # who /\ Holder(m)' = who}

\* C24: the poller, the renderer, the startup validation and the key
\* handlers take the table's mutex before the console log's and never the
\* other way round: no task locks the table while it holds the log; no task
\* locks a mutex it already holds; a task that is not inside a locked region
\* holds nothing; and the two tasks are never both waiting for a mutex, so
\* with VCS calls that return the locks cannot deadlock.
C24_LockOrder ==
    [][ /\ \A who \in {"ui", "poller"} :
            /\ ("repos" \in Acquired(who) => "console" \notin Held(who))
            /\ ("console" \in Acquired(who) => "repos" \in Held(who))
       /\ ((ui_ops # << >> /\ Head(ui_ops).op = "lock")
              => Head(ui_ops).m \notin Held("ui"))
       /\ ((poll_ops # << >> /\ Head(poll_ops).op = "lock")
              => Head(poll_ops).m \notin Held("poller"))
       /\ (ui_ops = << >> => Held("ui") = {})
       /\ (pc_poll # "polling" => Held("poller") = {})
       /\ (poll_ops = << >> => "console" \notin Held("poller"))
       /\ ~(Waiting(ui_ops) /\ Waiting(poll_ops))
       /\ ~(Waiting(ui_ops) /\ pc_poll = "sleep" /\ repos_lock # "free")
     ]_vars

\* the renderer waits for the table while the poller, holding it, has the
\* console log locked too
C24_Witness ==
    /\ Waiting(ui_ops)
    /\ Head(ui_ops).m = "repos"
    /\ Head(ui_ops) = Head(ui_draw_ops)
    /\ pc_ui = "draw"
    /\ Held("poller") = {"repos", "console"}

(* C25: among the records one tick appends for one repository, a "caught  *)
(* up" record never stands with a "Status changed", "New commits          *)
(* available" or "Local commits added" record, nor with a per-commit      *)
(* record; and whenever ahead and behind both increased, from any previous *)
(* counts, the "Status changed" record is there and no "caught up" one.   *)
C25_CaughtUpExclusive ==
    [][ Polled =>
          LET pa == repos[poll_idx].ahead
              pb == repos[poll_idx].behind
              res == results'[poll_idx]
              ups == SelectSeq(NewRecords, IsCaughtUp)
              deltas == SelectSeq(NewRecords, IsDelta)
              commits == SelectSeq(NewRecords, IsCommit)
          IN  /\ ups # << >> => (deltas = << >> /\ commits = << >>)
              /\ (res.status = "ok" /\ res.ahead > pa /\ res.behind > pb) =>
                   /\ ups = << >>
                   /\ \E k \in 1..Len(deltas) :
                        deltas[k].kind = "Status changed"
        ]_vars

\* a repository with counts (1, 1) went to (2, 2): the tick logged "Status
\* changed" and its commit for it, and no "caught up"
C25_Witness ==
    \E i \in 1..Len(repos) :
      /\ results[i].status = "ok"
      /\ repos[i].ahead = 2 /\ repos[i].behind = 2
      /\ \E k \in 1..Len(console_messages) :
           /\ console_messages[k].repo = repos[i].name
           /\ console_messages[k].kind = "Status changed"
           /\ console_messages[k].timestamp = now
           /\ console_messages[k].d_ahead = 1
           /\ console_messages[k].d_behind = 1
      /\ \E k \in 1..Len(console_messages) :
           /\ console_messages[k].repo = repos[i].name
           /\ IsCommit(console_messages[k])
           /\ console_messages[k].timestamp = now
      /\ \A k \in 1..Len(console_messages) :
           (console_messages[k].repo = repos[i].name
              /\ console_messages[k].timestamp = now)
             => ~IsCaughtUp(console_messages[k])
====
